---- MODULE Spec2Model ----
(***************************************************************************)
(* A model of the Weil explicit-formula evaluator (src/src/weil_*.py), of  *)
(* the zero loader (src/src/data_loader.py) and of the callers in          *)
(* src/src/main.py and src/src/connection.py.                              *)
(*                                                                         *)
(* Numbers.  An mpmath.mpf is modelled as a decimal floating-point number  *)
(* <<m, e>> standing for m * 10^e, with a mantissa of three digits         *)
(* and an unbounded exponent, so that the thresholds of the code (1e-50,   *)
(* 10^-dps with dps = 50, 1e-15) are represented exactly.  Arithmetic      *)
(* rounds to the mantissa; the library functions exp and log are modelled  *)
(* to that accuracy.  mpmath.mp.dps is the state variable mp_dps: in the   *)
(* model it decides the thresholds 10^-dps, not the mantissa width.        *)
(***************************************************************************)
EXTENDS Integers, Sequences, FiniteSets, TLC

VARIABLES
    mp_dps,         \* mpmath.mp.dps, the process-wide working precision
    precision_set,  \* whether the run has set the precision itself (main.py:22)
    cache_file,     \* data/riemann_zeros.json
    env,            \* what the loader finds outside: Sage, the text file, the web
    gammas,         \* the caller's list of loaded zeros
    call            \* the call in hand: its arguments and what it returned

vars == <<mp_dps, precision_set, cache_file, env, gammas, call>>

(***************************************************************************)
(* mpmath.mpf arithmetic on <<m, e>> = m * 10^e.  A value is 0 = <<0, 0>>  *)
(* or has a mantissa of exactly three digits, 100 <= |m| <= 999.           *)
(***************************************************************************)
Max(a, b) == IF a >= b THEN a ELSE b
Min(a, b) == IF a <= b THEN a ELSE b

Zero == <<0, 0>>

P10 == <<1, 10, 100, 1000, 10000>>

\* A rounded mantissa that reached 1000 carries into the exponent
Carry(q, e) == IF q >= 1000 THEN <<100, e + 1>> ELSE <<q, e>>

\* n * 10^e for an integer 0 < n < 10^7, rounded to three digits
NormPos(n, e) ==
    IF n >= 1000000 THEN Carry((n + 5000) \div 10000, e + 4)
    ELSE IF n >= 100000 THEN Carry((n + 500) \div 1000, e + 3)
    ELSE IF n >= 10000 THEN Carry((n + 50) \div 100, e + 2)
    ELSE IF n >= 1000 THEN Carry((n + 5) \div 10, e + 1)
    ELSE IF n >= 100 THEN <<n, e>>
    ELSE IF n >= 10 THEN <<n * 10, e - 1>>
    ELSE <<n * 100, e - 2>>

Neg(a) == <<-a[1], a[2]>>

WithSign(m, a) == IF m < 0 THEN Neg(a) ELSE a

\* mpmath.mpf of m * 10^e, for an integer |m| < 10^7
mpf(m, e) ==
    IF m = 0 THEN Zero
    ELSE WithSign(m, NormPos(IF m < 0 THEN -m ELSE m, e))

Abs(a) == IF a[1] < 0 THEN Neg(a) ELSE a

Mul(a, b) == mpf(a[1] * b[1], a[2] + b[2])

\* hi + lo where the exponent of hi is not the smaller one
AddAligned(hi, lo) ==
    IF hi[2] - lo[2] > 3 THEN hi
    ELSE mpf(hi[1] * P10[hi[2] - lo[2] + 1] + lo[1], lo[2])

Add(a, b) ==
    IF a[1] = 0 THEN b
    ELSE IF b[1] = 0 THEN a
    ELSE AddAligned(IF a[2] >= b[2] THEN a ELSE b,
                    IF a[2] >= b[2] THEN b ELSE a)

Sub(a, b) == Add(a, Neg(b))

\* a < b
Lt(a, b) ==
    IF a[1] < 0
    THEN b[1] >= 0 \/ a[2] > b[2] \/ (a[2] = b[2] /\ a[1] < b[1])
    ELSE IF a[1] = 0 THEN b[1] > 0
    ELSE b[1] > 0 /\ (a[2] < b[2] \/ (a[2] = b[2] /\ a[1] < b[1]))

Ge(a, b) == ~Lt(a, b)

\* a / b for b # 0
Div(a, b) ==
    mpf((IF (a[1] < 0) = (b[1] < 0) THEN 1 ELSE -1)
            * ((Abs(a)[1] * 1000) \div Abs(b)[1]),
        a[2] - b[2] - 3)

\* mpmath.mpf(n) for a Python int n
FromInt(n) == mpf(n, 0)

One == <<100, -2>>
Two == <<200, -2>>

\* The integer nearest to |a| * 10^s for -5 <= s <= 4
ScaledAbs(n, s) ==
    IF s >= 0 THEN n * P10[s + 1]
    ELSE IF s < -4 THEN 0
    ELSE (n + (P10[1 - s] \div 2)) \div P10[1 - s]

\* The integer nearest to a * 10^k, for |a| * 10^k < 10^7
Scaled(a, k) ==
    IF a[1] < 0 THEN -ScaledAbs(-a[1], a[2] + k) ELSE ScaledAbs(a[1], a[2] + k)

\* int(a) for an integer-valued mpf
ToInt(a) == Scaled(a, 0)

\* 100 * 10^(i/100) for i = 0..99
Pow10Frac ==
    << 100, 102, 105, 107, 110, 112, 115, 117, 120, 123,
       126, 129, 132, 135, 138, 141, 145, 148, 151, 155,
       158, 162, 166, 170, 174, 178, 182, 186, 191, 195,
       200, 204, 209, 214, 219, 224, 229, 234, 240, 245,
       251, 257, 263, 269, 275, 282, 288, 295, 302, 309,
       316, 324, 331, 339, 347, 355, 363, 372, 380, 389,
       398, 407, 417, 427, 437, 447, 457, 468, 479, 490,
       501, 513, 525, 537, 550, 562, 575, 589, 603, 617,
       631, 646, 661, 676, 692, 708, 724, 741, 759, 776,
       794, 813, 832, 851, 871, 891, 912, 933, 955, 977 >>

Log10E == <<434, -3>>

\* 10^(h/100) for an integer h
Exp10Hundredths(h) == <<Pow10Frac[(h % 100) + 1], (h \div 100) - 2>>

\* 10^t.  A result below 10^-100000 is flushed to 0 and one above
\* 10^100000 saturates: no comparison of the code tells such magnitudes
\* apart.
Exp10(t) ==
    IF t[1] # 0 /\ t[2] > 2
    THEN IF t[1] < 0 THEN Zero ELSE <<100, 100000>>
    ELSE Exp10Hundredths(Scaled(t, 2))

\* mpmath.exp(x) = 10^(x * log10(e))
Exp(x) == Exp10(Mul(x, Log10E))

\* 1000 * ln(n) for n = 1..40
LogMilli ==
    << 0, 693, 1099, 1386, 1609, 1792, 1946, 2079, 2197, 2303,
       2398, 2485, 2565, 2639, 2708, 2773, 2833, 2890, 2944, 2996,
       3045, 3091, 3135, 3178, 3219, 3258, 3296, 3332, 3367, 3401,
       3434, 3466, 3497, 3526, 3555, 3584, 3611, 3638, 3664, 3689 >>

\* mpmath.log(a) for a = mpf(n), n an integer in 1..40
Log(a) == mpf(LogMilli[ToInt(a)], -3)

\* a ** y for a > 0
Pow(a, y) == Exp(Mul(y, Log(a)))

SqrtPi == <<177, -2>>
Log4Pi == <<253, -2>>
Euler  == <<577, -3>>

\* mpmath.mpf(10) ** (-mpmath.mp.dps)
Epsilon(dps) == <<100, -dps - 2>>

(***************************************************************************)
(* Test functions.  The evaluators take the test function as a callable;   *)
(* the model passes a descriptor and applies it with Apply.                *)
(***************************************************************************)

Square(q) == Mul(q, q)

\* WeilFunctional.gaussian_testfunc: f(u) = exp(-(u / (2 sigma))^2)
gaussian_f(sigma, u) == Exp(Neg(Square(Div(u, Mul(Two, sigma)))))

Gaussian(sigma) == [kind |-> "gaussian", sigma |-> sigma]

\* f = 1 everywhere: no decay at all
ConstOne == [kind |-> "one"]

\* f = 1 on |u| < 3/2 and 0 elsewhere: it vanishes at log 5 and beyond
Box == [kind |-> "box"]

\* f = 0 on |u| < 1 and 1 elsewhere: it vanishes at log 2 only
Hole == [kind |-> "hole"]

Apply(f, u) ==
    CASE f.kind = "gaussian" -> gaussian_f(f.sigma, u)
      [] f.kind = "one"      -> One
      [] f.kind = "box"      -> IF Lt(Abs(u), <<150, -2>>) THEN One ELSE Zero
      [] f.kind = "hole"     -> IF Lt(Abs(u), One) THEN Zero ELSE One

(***************************************************************************)
(* PrimesContribution.first_primes                                         *)
(***************************************************************************)

\* The sieve bound max(15000, n * 20), scaled down: the model keeps the
\* shape of the bound and makes both of its regimes reachable.
SieveFloor == 15
SieveFactor == 2

sieve_limit(n) == Max(SieveFloor, n * SieveFactor)

\* int(limit ** 0.5)
Isqrt(n) == CHOOSE r \in 0..n : r * r <= n /\ (r + 1) * (r + 1) > n

\* A crossing-off that starts one multiple late, at i*i + i
cross_off_after_square(is_prime, i, limit) ==
    [j \in 0..limit |->
        IF j > i * i /\ (j - i * i) % i = 0 THEN FALSE ELSE is_prime[j]]

\* for j in range(i*i, limit + 1, i): is_prime[j] = False
cross_off(is_prime, i, limit) ==
    [j \in 0..limit |->
        IF j >= i * i /\ (j - i * i) % i = 0 THEN FALSE ELSE is_prime[j]]

\* for i in range(2, int(limit**0.5) + 1), from i on
RECURSIVE sieve_loop(_, _, _)
sieve_loop(is_prime, i, limit) ==
    IF i >= Isqrt(limit) + 1 THEN is_prime
    ELSE sieve_loop(IF is_prime[i] THEN cross_off(is_prime, i, limit)
                    ELSE is_prime,
                    i + 1, limit)

\* [i for i in range(2, limit + 1) if is_prime[i]], from i on
RECURSIVE collect(_, _, _)
collect(is_prime, i, limit) ==
    IF i >= limit + 1 THEN << >>
    ELSE (IF is_prime[i] THEN <<i>> ELSE << >>)
             \o collect(is_prime, i + 1, limit)

\* A slice that is one entry too long: primes[:n + 1]
slice_one_more(s, n) == SubSeq(s, 1, Min(n + 1, Len(s)))

\* primes[:n] for n >= 0
slice_to(s, n) == SubSeq(s, 1, Min(n, Len(s)))

\* The sieve of Eratosthenes up to limit
sieve_primes(limit) ==
    collect(sieve_loop([i \in 0..limit |-> i >= 2], 2, limit), 2, limit)

first_primes(n) == slice_to(sieve_primes(sieve_limit(n)), n)

(***************************************************************************)
(* ZerosContribution                                                       *)
(***************************************************************************)

\* 2 * sigma * sqrt(pi) * exp(-(sigma * t) ** 2)
gaussian_fourier_transform(t, sigma) ==
    Mul(Mul(Mul(Two, sigma), SqrtPi), Exp(Neg(Square(Mul(sigma, t)))))

\* mpmath.mpf('1e-50')
ZeroFloor == <<100, -52>>

RECURSIVE zeros_loop(_, _, _, _)

\* The body of the loop once f_hat_val is computed: total += f_hat_val,
\* then the early exit
zeros_pass(gs, sigma, i, total, f_hat_val) ==
    IF Lt(f_hat_val, ZeroFloor)
    THEN [total |-> Add(total, f_hat_val), used |-> i]
    ELSE zeros_loop(gs, sigma, i + 1, Add(total, f_hat_val))

\* The loop over enumerate(gammas) from index i on.  used counts the terms
\* added to total.
zeros_loop(gs, sigma, i, total) ==
    IF i > Len(gs) THEN [total |-> total, used |-> i - 1]
    ELSE zeros_pass(gs, sigma, i, total,
                    gaussian_fourier_transform(gs[i], sigma))

\* return 2 * total
zeros_result(r) == [value |-> Mul(Two, r.total), used |-> r.used]

ZerosContribution_compute(gs, sigma) ==
    zeros_result(zeros_loop(gs, sigma, 1, Zero))

(***************************************************************************)
(* PrimesContribution.compute                                              *)
(***************************************************************************)

\* range(1, 100) stops before 100
InnerStop == 100

\* float(x): a double has no magnitude below 1e-324
ToFloat(x) == IF x[1] # 0 /\ x[2] + 2 < -324 THEN Zero ELSE x

\* d[k] = v on an insertion-ordered dict, kept as a sequence of <<key, value>>
dict_set(d, k, v) ==
    IF \E i \in 1..Len(d) : d[i][1] = k
    THEN [i \in 1..Len(d) |-> IF d[i][1] = k THEN <<k, v>> ELSE d[i]]
    ELSE Append(d, <<k, v>>)

dict_keys(d) == [i \in 1..Len(d) |-> d[i][1]]

\* term = p_power * (f(u_pos) + f(u_neg)), u_pos = m * log_p,
\* u_neg = -m * log_p
inner_term(f, log_p, m, p_power) ==
    Mul(p_power, Add(Apply(f, Mul(FromInt(m), log_p)),
                     Apply(f, Mul(Neg(FromInt(m)), log_p))))

\* A pass that tests |term| before the addition: the term that ends the
\* loop is left out of the sum
inner_add_after_test(m, inner_sum, dps, term) ==
    IF Lt(Abs(term), Epsilon(dps))
    THEN [sum |-> inner_sum, exit |-> "term", terms |-> m]
    ELSE [sum |-> Add(inner_sum, term), exit |-> "next", terms |-> m]

\* inner_sum += term and the test of |term|.  exit names the way the pass
\* ended ("next": the loop goes on); terms counts the terms added so far.
inner_add(m, inner_sum, dps, term) ==
    [sum |-> Add(inner_sum, term),
     exit |-> IF Lt(Abs(term), Epsilon(dps)) THEN "term" ELSE "next",
     terms |-> m]

\* One pass of the inner loop once p_power is computed
inner_pass(f, log_p, m, inner_sum, dps, p_power) ==
    IF Lt(p_power, Epsilon(dps))
    THEN [sum |-> inner_sum, exit |-> "power", terms |-> m - 1]
    ELSE inner_add(m, inner_sum, dps, inner_term(f, log_p, m, p_power))

\* One pass of the body of the inner loop: p_power = p_mp ** (-m / 2) first
inner_body(f, p_mp, log_p, m, inner_sum, dps) ==
    inner_pass(f, log_p, m, inner_sum, dps,
               Pow(p_mp, Div(Neg(FromInt(m)), Two)))

RECURSIVE inner_passes(_, _, _, _, _, _, _)

\* After pass m with outcome r: the next pass, unless the loop ended
inner_continue(f, p_mp, log_p, m, last, dps, r) ==
    IF r.exit = "next" /\ m < last
    THEN inner_passes(f, p_mp, log_p, m + 1, last, r.sum, dps)
    ELSE r

\* The passes m, m + 1, ..., last of the inner loop, as long as it goes on
inner_passes(f, p_mp, log_p, m, last, inner_sum, dps) ==
    inner_continue(f, p_mp, log_p, m, last, dps,
                   inner_body(f, p_mp, log_p, m, inner_sum, dps))

RECURSIVE inner_loop(_, _, _, _, _, _)

\* After a block of passes with outcome r
inner_block(f, p_mp, log_p, dps, r) ==
    IF r.exit = "next"
    THEN inner_loop(f, p_mp, log_p, r.terms + 1, r.sum, dps)
    ELSE r

\* The inner loop for m in range(1, 100), from m on.  The passes are
\* evaluated ten at a time, which keeps the evaluation stack shallow and
\* changes nothing in their order.  Running out of the range is exit "cap".
inner_loop(f, p_mp, log_p, m, inner_sum, dps) ==
    IF m >= InnerStop
    THEN [sum |-> inner_sum, exit |-> "cap", terms |-> m - 1]
    ELSE inner_block(f, p_mp, log_p, dps,
                     inner_passes(f, p_mp, log_p, m,
                                  Min(m + 9, InnerStop - 1), inner_sum, dps))

\* prime_term = log_p * inner_sum
prime_term_of(log_p, inner) ==
    [prime_term |-> Mul(log_p, inner.sum), exit |-> inner.exit,
     terms |-> inner.terms]

\* The body of the loop over primes, up to prime_term
prime_step(f, p, dps) ==
    prime_term_of(Log(FromInt(p)),
                  inner_loop(f, FromInt(p), Log(FromInt(p)), 1, Zero, dps))

RECURSIVE outer_loop(_, _, _, _, _, _, _)

\* A loop body that tests |prime_term| before it records the prime: the
\* prime that ends the loop gets no entry
outer_test_first(f, primes, i, total, p_contributions, inner, dps, step) ==
    IF Lt(Abs(step.prime_term), Epsilon(dps))
    THEN [total |-> total, p_contributions |-> p_contributions,
          inner |-> inner]
    ELSE outer_loop(f, primes, i + 1,
                    Add(total, step.prime_term),
                    dict_set(p_contributions, primes[i],
                             ToFloat(step.prime_term)),
                    Append(inner, [p |-> primes[i], exit |-> step.exit,
                                   terms |-> step.terms]),
                    dps)

\* The rest of the body for primes[i]: total += prime_term, the entry of
\* p_contributions, then the early exit.  inner records, per processed
\* prime, how its inner loop ended.
outer_record(f, primes, i, total, p_contributions, inner, dps, step) ==
    IF Lt(Abs(step.prime_term), Epsilon(dps))
    THEN [total |-> Add(total, step.prime_term),
          p_contributions |->
              dict_set(p_contributions, primes[i], ToFloat(step.prime_term)),
          inner |-> Append(inner, [p |-> primes[i], exit |-> step.exit,
                                   terms |-> step.terms])]
    ELSE outer_loop(f, primes, i + 1,
                    Add(total, step.prime_term),
                    dict_set(p_contributions, primes[i],
                             ToFloat(step.prime_term)),
                    Append(inner, [p |-> primes[i], exit |-> step.exit,
                                   terms |-> step.terms]),
                    dps)

\* The loop for p in primes, from index i on
outer_loop(f, primes, i, total, p_contributions, inner, dps) ==
    IF i > Len(primes)
    THEN [total |-> total, p_contributions |-> p_contributions,
          inner |-> inner]
    ELSE outer_record(f, primes, i, total, p_contributions, inner, dps,
                      prime_step(f, primes[i], dps))

PrimesContribution_compute(f, num_primes, dps) ==
    outer_loop(f, first_primes(num_primes), 1, Zero, << >>, << >>, dps)

(***************************************************************************)
(* ArchimideanTerm.compute                                                 *)
(***************************************************************************)

\* mpmath.mpf('1e-15')
XCutoff == <<100, -17>>

\* num / den.  mpmath raises ZeroDivisionError on a zero denominator, which
\* exp(x) - 1 is when exp(x) rounds to 1 at the working mantissa.
integrand_ratio(num, den) ==
    IF den[1] = 0
    THEN [value |-> Zero, divided |-> TRUE, raised |-> "ZeroDivisionError"]
    ELSE [value |-> Div(num, den), divided |-> TRUE, raised |-> "none"]

\* An integrand that returns 0 at x = 0 only
integrand_zero_only(f, f_of_1, x) ==
    IF x[1] = 0
    THEN [value |-> Zero, divided |-> FALSE, raised |-> "none"]
    ELSE integrand_ratio(Sub(Add(Apply(f, Exp(x)), Apply(f, Exp(Neg(x)))),
                             Mul(Two, f_of_1)),
                         Sub(Exp(x), One))

\* One evaluation of the integrand of the principal-value integral, after
\* u = exp(x): what it returns, and whether it went through num / den
integrand_eval(f, f_of_1, x) ==
    IF Lt(Abs(x), XCutoff)
    THEN [value |-> Zero, divided |-> FALSE, raised |-> "none"]
    ELSE integrand_ratio(Sub(Add(Apply(f, Exp(x)), Apply(f, Exp(Neg(x)))),
                             Mul(Two, f_of_1)),
                         Sub(Exp(x), One))

\* The value of the integrand at x
integrand(f, f_of_1, x) == integrand_eval(f, f_of_1, x).value

\* The abscissae at which the quadrature over [-120, 120] samples the
\* integrand: the end points, the midpoint and a few points between.
QuadNodes == <<-120, -60, -1, 0, 1, 60, 120>>

\* mpmath.quad(g, [-120, 120]), as the trapezoidal sum over QuadNodes from
\* node i on
RECURSIVE quad(_, _, _)
quad(f, f_of_1, i) ==
    IF i >= Len(QuadNodes) THEN Zero
    ELSE Add(Div(Mul(FromInt(QuadNodes[i + 1] - QuadNodes[i]),
                     Add(integrand(f, f_of_1, FromInt(QuadNodes[i])),
                         integrand(f, f_of_1, FromInt(QuadNodes[i + 1])))),
                 Two),
             quad(f, f_of_1, i + 1))

\* part1 + part2 with part1 = (log(4 pi) + gamma) * f(1)
arch_sum(f, f_of_1) ==
    Add(Mul(Add(Log4Pi, Euler), f_of_1), quad(f, f_of_1, 1))

ArchimideanTerm_compute(f) == arch_sum(f, Apply(f, One))

(***************************************************************************)
(* WeilFunctional.compute                                                  *)
(***************************************************************************)

\* The tolerance -1e-10 of the positivity verdict
PositivityTol == <<-100, -12>>

\* w_poles = 2 * pole_term_value,
\* pole_term_value = 2 * sigma * sqrt(pi) * exp(sigma**2 / 4)
pole_term(sigma) ==
    Mul(Two, Mul(Mul(Mul(Two, sigma), SqrtPi),
                 Exp(Div(Square(sigma), FromInt(4)))))

\* The four terms of one call, next to what the callees did
terms_record(w_arch, zeros, primes, w_poles) ==
    [w_arch |-> w_arch, w_zeros |-> zeros.value, zeros_used |-> zeros.used,
     w_primes |-> primes.total, p_contributions |-> primes.p_contributions,
     inner |-> primes.inner, w_poles |-> w_poles]

weil_terms(gs, sigma, num_primes, dps) ==
    terms_record(ArchimideanTerm_compute(Gaussian(sigma)),
                 ZerosContribution_compute(gs, sigma),
                 PrimesContribution_compute(Gaussian(sigma), num_primes, dps),
                 pole_term(sigma))

\* The other formulation of the total: w_arch + w_primes - w_zeros
weil_total_spectral(t) == Sub(Add(t.w_arch, t.w_primes), t.w_zeros)

\* W_f_geom = w_poles - w_arch - w_primes
weil_total(t) == Sub(Sub(t.w_poles, t.w_arch), t.w_primes)

\* abs(W_f_geom - W_f_spec)
weil_identity_error(t) == Abs(Sub(weil_total(t), t.w_zeros))

\* The dict returned next to the total
weil_components(t, sigma, gs, num_primes) ==
    [W_archimedean  |-> t.w_arch,
     W_zeros        |-> t.w_zeros,
     W_primes       |-> t.w_primes,
     W_poles        |-> t.w_poles,
     W_total        |-> weil_total(t),
     identity_error |-> weil_identity_error(t),
     sigma          |-> sigma,
     num_gammas     |-> Len(gs),
     num_primes     |-> num_primes]

\* What the call prints as its positivity verdict (verbose only)
weil_verdict(t, verbose) ==
    IF ~verbose THEN "none"
    ELSE IF Ge(weil_total(t), PositivityTol) THEN "POSITIVE" ELSE "NEGATIVE"

\* The returned pair, what was printed and raised, and what the callees did
\* (zeros_used, p_contributions, inner: not part of the result)
weil_result(t, sigma, gs, num_primes, verbose) ==
    [total      |-> weil_total(t),
     components |-> weil_components(t, sigma, gs, num_primes),
     verdict    |-> weil_verdict(t, verbose),
     raised     |-> "none",
     zeros_used |-> t.zeros_used,
     p_contributions |-> t.p_contributions,
     inner      |-> t.inner]

WeilFunctional_compute(gs, sigma, num_primes, verbose, dps) ==
    weil_result(weil_terms(gs, sigma, num_primes, dps),
                sigma, gs, num_primes, verbose)

(***************************************************************************)
(* RiemannZerosLoader.load_odlyzko                                         *)
(***************************************************************************)

\* The table of zeros every source serves a prefix of
ZeroTable ==
    << <<141, -1>>, <<210, -1>>, <<250, -1>>,
       <<304, -1>>, <<329, -1>>, <<376, -1>> >>

\* A file or service holding the first k zeros; k = -1: there is none
Holds(k) == [exists |-> k >= 0, data |-> SubSeq(ZeroTable, 1, Max(k, 0))]

\* def load_odlyzko(num_zeros = 100000, dps = 50)
LoadDefaultDps == 50

\* str(g) and mpmath.mpf(s): a decimal string, and its value, carry dps
\* significant digits
round_dps(g, dps) ==
    IF dps >= 3 \/ g[1] = 0 THEN g
    ELSE mpf(((Abs(g)[1] + (P10[4 - dps] \div 2)) \div P10[4 - dps])
                 * (IF g[1] < 0 THEN -1 ELSE 1),
             g[2] + 3 - dps)

as_dps(gs, dps) == [i \in 1..Len(gs) |-> round_dps(gs[i], dps)]

\* _save_cache
save_cache(gs, dps) == [exists |-> TRUE, data |-> as_dps(gs, dps)]

\* fetch_odlyzko_from_web
fetch_odlyzko_from_web(num_zeros, dps, web) ==
    IF ~web.exists THEN << >> ELSE as_dps(slice_to(web.data, num_zeros), dps)

\* The sources the call turned to before the web, in order
before_web(cache, e) ==
    (IF cache.exists THEN <<"cache">> ELSE << >>)
        \o <<"sage">> \o (IF e.txt.exists THEN <<"txt">> ELSE << >>)

\* The end of load_odlyzko: g is what the last source gave
load_done(num_zeros, dps, cache, g, consulted) ==
    [gammas |-> slice_to(g, num_zeros),
     cache |-> IF Len(g) > 0 THEN save_cache(g, dps) ELSE cache,
     consulted |-> consulted]

\* After the local text file gave the list local
load_after_txt(num_zeros, dps, cache, e, local) ==
    IF Len(local) < num_zeros
    THEN load_done(num_zeros, dps, cache,
                   fetch_odlyzko_from_web(num_zeros, dps, e.web),
                   before_web(cache, e) \o <<"web">>)
    ELSE load_done(num_zeros, dps, cache, local, before_web(cache, e))

\* The body of load_odlyzko after the precision is set.  consulted lists
\* the sources in the order the call turned to them.
load_odlyzko(num_zeros, dps, cache, e) ==
    IF cache.exists /\ Len(cache.data) >= num_zeros
    THEN [gammas |-> as_dps(slice_to(cache.data, num_zeros), dps),
          cache |-> cache,
          consulted |-> <<"cache">>]
    ELSE IF e.sage.exists
         THEN [gammas |-> as_dps(slice_to(e.sage.data, num_zeros), dps),
               cache |-> save_cache(
                             as_dps(slice_to(e.sage.data, num_zeros), dps),
                             dps),
               consulted |-> (IF cache.exists THEN <<"cache">> ELSE << >>)
                                 \o <<"sage">>]
         ELSE load_after_txt(num_zeros, dps, cache, e,
                             IF e.txt.exists
                             THEN as_dps(slice_to(e.txt.data, num_zeros), dps)
                             ELSE << >>)

\* verify_first_five: the reference values, the first five of the table
expected == SubSeq(ZeroTable, 1, 5)

\* tolerance = mpmath.mpf(1e-10)
tolerance == <<100, -12>>

RECURSIVE verify_loop(_, _, _)

\* for i in range(min(5, len(gammas))), from index i on (1-based), up to
\* last = min(5, len(gammas)): False at the first error above the
\* tolerance, True when the range is exhausted
verify_loop(gs, i, last) ==
    IF i > last THEN TRUE
    ELSE IF Lt(tolerance, Abs(Sub(gs[i], expected[i]))) THEN FALSE
    ELSE verify_loop(gs, i + 1, last)

verify_first_five(gs) == verify_loop(gs, 1, Min(5, Len(gs)))

(***************************************************************************)
(* BruhatTitsTree.build.  The graph is a set of nodes and a set of edges   *)
(* <<parent, child>>; the queue holds pairs <<node, level>>.               *)
(***************************************************************************)

\* Every node, the root included, gets p + 1 children
num_children_uniform(p, parent_id) == p + 1

\* num_children = self.p + 1 if parent_id == 0 else self.p
num_children(p, parent_id) == IF parent_id = 0 THEN p + 1 ELSE p

\* build up to the while loop: the root, its level, the queue [(0, 0)].
\* iterations counts the passes of the while loop.
build_start(p, depth) ==
    [p |-> p, depth |-> depth, nodes |-> {0}, edges |-> {},
     node_level |-> [n \in {0} |-> 0], queue |-> << <<0, 0>> >>,
     node_id_counter |-> 1, iterations |-> 0]

\* The for loop of one pass: n children of parent_id, with the ids
\* node_id_counter .. node_id_counter + n - 1, each at level + 1, each
\* joined to parent_id and appended to the queue in the order of the ids
add_children(t, parent_id, level, n) ==
    [t EXCEPT
        !.nodes = @ \cup (t.node_id_counter .. (t.node_id_counter + n - 1)),
        !.edges = @ \cup {<<parent_id, c>> :
                             c \in t.node_id_counter ..
                                       (t.node_id_counter + n - 1)},
        !.node_level =
            [c \in t.nodes \cup
                       (t.node_id_counter .. (t.node_id_counter + n - 1)) |->
                IF c \in t.nodes THEN t.node_level[c] ELSE level + 1],
        !.queue = Tail(@) \o [j \in 1..n |->
                                  <<t.node_id_counter + j - 1, level + 1>>],
        !.node_id_counter = @ + n,
        !.iterations = @ + 1]

\* One pass of the while loop: pop the head; a node at the depth gets no
\* children
build_pass(t, parent_id, level) ==
    IF level >= t.depth
    THEN [t EXCEPT !.queue = Tail(@), !.iterations = @ + 1]
    ELSE add_children(t, parent_id, level, num_children(t.p, parent_id))

(***************************************************************************)
(* The state machine: one action per operation of the program.  A call     *)
(* is issued when the caller holds no result (Ready); Return drops the     *)
(* result of the call in hand.                                             *)
(***************************************************************************)

\* The precisions a run works at: mpmath's default 15, the 50 of main, of
\* the tests and of the loader's default, and one other
DpsValues == {15, 30, LoadDefaultDps}

MaxNumPrimes == 7
MaxLoad == 3

Tenth == <<100, -3>>

\* The widths main and the experiments use (0.1, 1.0, 1.5)
Sigmas == {Tenth, One, <<150, -2>>}

TestFuncs == {Gaussian(sg) : sg \in Sigmas} \cup {ConstOne, Box, Hole}

\* What the loader can find outside the process
Envs ==
    { [sage |-> Holds(-1), txt |-> Holds(-1), web |-> Holds(6)],
      [sage |-> Holds(6),  txt |-> Holds(-1), web |-> Holds(-1)],
      [sage |-> Holds(-1), txt |-> Holds(2),  web |-> Holds(6)],
      [sage |-> Holds(-1), txt |-> Holds(2),  web |-> Holds(-1)] }

NoCall == [op |-> "none"]

Ready == call.op = "none"

Init ==
    /\ mp_dps = 15
    /\ precision_set = FALSE
    /\ cache_file = Holds(-1)
    /\ env \in Envs
    /\ gammas = << >>
    /\ call = NoCall

\* mpmath.mp.dps = d (main.py:22, tests/test_weil.py:16)
SetPrecision(d) ==
    /\ Ready
    /\ mp_dps' = d
    /\ precision_set' = TRUE
    /\ call' = [op |-> "set_precision", dps |-> d]
    /\ UNCHANGED <<cache_file, env, gammas>>

\* What load_odlyzko leaves behind once its body gave r
Loaded(num_zeros, dps, r) ==
    /\ mp_dps' = dps
    /\ cache_file' = r.cache
    /\ gammas' = r.gammas
    /\ call' = [op |-> "load_odlyzko", num_zeros |-> num_zeros,
                dps |-> dps, entry_dps |-> mp_dps, result |-> r.gammas,
                consulted |-> r.consulted]

\* gammas = loader.load_odlyzko(num_zeros, dps): mpmath.mp.dps = dps first
LoadOdlyzko(num_zeros, dps) ==
    /\ Ready
    /\ Loaded(num_zeros, dps, load_odlyzko(num_zeros, dps, cache_file, env))
    /\ UNCHANGED <<precision_set, env>>

\* PrimesContribution.first_primes(n)
FirstPrimes(n) ==
    /\ Ready
    /\ call' = [op |-> "first_primes", n |-> n, entry_dps |-> mp_dps,
                result |-> first_primes(n)]
    /\ UNCHANGED <<mp_dps, precision_set, cache_file, env, gammas>>

\* ArchimideanTerm.compute(f)
ArchCompute(f) ==
    /\ Ready
    /\ call' = [op |-> "ArchimideanTerm.compute", f |-> f,
                entry_dps |-> mp_dps, result |-> ArchimideanTerm_compute(f)]
    /\ UNCHANGED <<mp_dps, precision_set, cache_file, env, gammas>>

\* One evaluation of the integrand by the quadrature, at the abscissa x
IntegrandCall(f, x) ==
    /\ Ready
    /\ call' = [op |-> "integrand", f |-> f, x |-> x, entry_dps |-> mp_dps,
                result |-> integrand_eval(f, Apply(f, One), x)]
    /\ UNCHANGED <<mp_dps, precision_set, cache_file, env, gammas>>

zeros_call(gs, sigma, dps, r) ==
    [op |-> "ZerosContribution.compute", gammas |-> gs, sigma |-> sigma,
     entry_dps |-> dps, result |-> r.value, used |-> r.used]

\* ZerosContribution.compute(gs, sigma)
ZerosCompute(gs, sigma) ==
    /\ Ready
    /\ call' = zeros_call(gs, sigma, mp_dps,
                            ZerosContribution_compute(gs, sigma))
    /\ UNCHANGED <<mp_dps, precision_set, cache_file, env, gammas>>

primes_call(f, num_primes, dps, r) ==
    [op |-> "PrimesContribution.compute", f |-> f,
     num_primes |-> num_primes, dps |-> dps, entry_dps |-> dps,
     raised |-> "none",
     total |-> r.total, p_contributions |-> r.p_contributions,
     inner |-> r.inner]

\* PrimesContribution.compute(f, num_primes)
PrimesCompute(f, num_primes) ==
    /\ Ready
    /\ call' = primes_call(f, num_primes, mp_dps,
                           PrimesContribution_compute(f, num_primes, mp_dps))
    /\ UNCHANGED <<mp_dps, precision_set, cache_file, env, gammas>>

\* A compute whose first call uses up the zeros it is given (a list read
\* through a one-shot iterator): the second call finds none
WeilCompute_consuming(gs, sigma, num_primes, verbose) ==
    /\ \/ Ready
       \/ /\ call.op = "WeilFunctional.compute"
          /\ call.args = <<gs, sigma, num_primes, verbose>>
          /\ call.nth = 1
    /\ call' = [op |-> "WeilFunctional.compute",
                args |-> <<gs, sigma, num_primes, verbose>>,
                nth |-> IF Ready THEN 1 ELSE 2,
                first |-> IF Ready THEN NoCall ELSE call.result,
                dps |-> mp_dps,
                entry_dps |-> mp_dps,
                result |-> WeilFunctional_compute(
                               IF Ready THEN gs ELSE << >>,
                               sigma, num_primes, verbose, mp_dps)]
    /\ UNCHANGED <<mp_dps, precision_set, cache_file, env, gammas>>

\* WeilFunctional.compute(gs, sigma, num_primes, verbose).  The caller may
\* issue the same call a second time before it drops the first result;
\* first is the result it then still holds.
WeilCompute(gs, sigma, num_primes, verbose) ==
    /\ \/ Ready
       \/ /\ call.op = "WeilFunctional.compute"
          /\ call.args = <<gs, sigma, num_primes, verbose>>
          /\ call.nth = 1
    /\ call' = [op |-> "WeilFunctional.compute",
                args |-> <<gs, sigma, num_primes, verbose>>,
                nth |-> IF Ready THEN 1 ELSE 2,
                first |-> IF Ready THEN NoCall ELSE call.result,
                dps |-> mp_dps,
                entry_dps |-> mp_dps,
                result |-> WeilFunctional_compute(gs, sigma, num_primes,
                                                  verbose, mp_dps)]
    /\ UNCHANGED <<mp_dps, precision_set, cache_file, env, gammas>>

\* p_contributions = components_ideal['p_contributions'] (connection.py:81)
read_p_contributions(components) ==
    IF "p_contributions" \in DOMAIN components
    THEN [raised |-> "none", components |-> components]
    ELSE [raised |-> "KeyError", components |-> components]

\* WeilGraphConnection.experiment_graph_weight_assignment, up to its read of
\* components_ideal['p_contributions'] (connection.py:78-81)
experiment_graph_weight_assignment(gs, sigma, num_primes, dps) ==
    read_p_contributions(
        WeilFunctional_compute(gs, sigma, num_primes, FALSE, dps).components)

ExperimentGraphWeightAssignment(sigma, num_primes) ==
    /\ Ready
    /\ call' = [op |-> "experiment_graph_weight_assignment",
                args |-> <<gammas, sigma, num_primes>>,
                entry_dps |-> mp_dps,
                result |-> experiment_graph_weight_assignment(
                               gammas, sigma, num_primes, mp_dps)]
    /\ UNCHANGED <<mp_dps, precision_set, cache_file, env, gammas>>

\* loader.verify_first_five(gs)
VerifyFirstFive(gs) ==
    /\ Ready
    /\ call' = [op |-> "verify_first_five", gammas |-> gs,
                entry_dps |-> mp_dps, result |-> verify_first_five(gs)]
    /\ UNCHANGED <<mp_dps, precision_set, cache_file, env, gammas>>

\* BruhatTitsTree(p, depth): the constructor enters build
BuildStart(p, depth) ==
    /\ Ready
    /\ call' = [op |-> "BruhatTitsTree.build", entry_dps |-> mp_dps,
                tree |-> build_start(p, depth)]
    /\ UNCHANGED <<mp_dps, precision_set, cache_file, env, gammas>>

\* One pass of while queue
BuildPass ==
    /\ call.op = "BruhatTitsTree.build"
    /\ call.tree.queue # << >>
    /\ call' = [call EXCEPT
                   !.tree = build_pass(@, Head(@.queue)[1], Head(@.queue)[2])]
    /\ UNCHANGED <<mp_dps, precision_set, cache_file, env, gammas>>

\* The queue is empty: build and the constructor return
BuildReturn ==
    /\ call.op = "BruhatTitsTree.build"
    /\ call.tree.queue = << >>
    /\ call' = NoCall
    /\ UNCHANGED <<mp_dps, precision_set, cache_file, env, gammas>>

\* The caller has read the result
Return ==
    /\ ~Ready
    /\ call' = NoCall
    /\ UNCHANGED <<mp_dps, precision_set, cache_file, env, gammas>>

\* A run of the whole program
Next ==
    \/ \E d \in DpsValues : SetPrecision(d)
    \/ \E n \in 0..MaxLoad, d \in DpsValues : LoadOdlyzko(n, d)
    \/ \E n \in {1, MaxNumPrimes} : FirstPrimes(n)
    \/ \E sg \in {One} : ArchCompute(Gaussian(sg))
    \/ \E sg \in {One} : ZerosCompute(gammas, sg)
    \/ \E sg \in {One}, n \in {1} : PrimesCompute(Gaussian(sg), n)
    \/ \E sg \in {Tenth, One}, n \in {1, MaxNumPrimes}, v \in BOOLEAN :
           WeilCompute(gammas, sg, n, v)
    \/ \E sg \in {One}, n \in {2} : ExperimentGraphWeightAssignment(sg, n)
    \/ Return

Spec == Init /\ [][Next]_vars

\* A run that only asks for primes and sums over them, with any of the
\* test functions
NextPrimes ==
    \/ \E d \in DpsValues : SetPrecision(d)
    \/ \E n \in 0..(MaxNumPrimes + 1) : FirstPrimes(n)
    \/ \E f \in TestFuncs, n \in 1..MaxNumPrimes : PrimesCompute(f, n)
    \/ Return

SpecPrimes == Init /\ [][NextPrimes]_vars

\* The widths the zeros sum is asked for: those of the experiments and one
\* negative
ZeroSigmas == Sigmas \cup {Neg(Tenth)}

\* Lists handed to verify_first_five besides the loaded one: the table cut
\* at every length, and the table of five or six with one entry off by 0.1
VerifyInputs ==
    {SubSeq(ZeroTable, 1, k) : k \in 0..Len(ZeroTable)}
        \cup {[SubSeq(ZeroTable, 1, k) EXCEPT ![i] = Add(@, Tenth)] :
                  k \in 5..Len(ZeroTable), i \in 1..Len(ZeroTable) - 1}
        \cup {<<Add(ZeroTable[1], Tenth), ZeroTable[2]>>}

\* A run that loads zeros, verifies them and sums their transforms
NextZeros ==
    \/ \E n \in 0..MaxLoad, d \in DpsValues : LoadOdlyzko(n, d)
    \/ \E gs \in VerifyInputs \cup {gammas} : VerifyFirstFive(gs)
    \/ \E sg \in ZeroSigmas : ZerosCompute(gammas, sg)
    \/ Return

SpecZeros == Init /\ [][NextZeros]_vars

\* The trees the model builds: p = 1..MaxP, depth = 0..MaxDepth
MaxP == 3
MaxDepth == 3

\* A run that builds trees
NextTree ==
    \/ \E p \in 1..MaxP, depth \in 0..MaxDepth : BuildStart(p, depth)
    \/ BuildPass
    \/ BuildReturn

SpecTree == Init /\ [][NextTree]_vars

\* Abscissae around the cutoff 1e-15: 0, +-1e-16, 9.99e-16, +-1e-15,
\* 1.01e-15, and +-1
ArchPoints ==
    { Zero, <<100, -18>>, <<-100, -18>>, <<999, -18>>, <<100, -17>>,
      <<-100, -17>>, <<101, -17>>, One, Neg(One) }

\* A run that evaluates the archimedean term and its integrand
NextArch ==
    \/ \E d \in DpsValues : SetPrecision(d)
    \/ \E f \in TestFuncs : ArchCompute(f)
    \/ \E f \in TestFuncs, x \in ArchPoints : IntegrandCall(f, x)
    \/ Return

SpecArch == Init /\ [][NextArch]_vars

(***************************************************************************)
(* Properties of first_primes                                              *)
(***************************************************************************)

IsPrime(k) == k >= 2 /\ \A d \in 2..(k - 1) : k % d # 0

PrimesUpTo(b) == {q \in 2..b : IsPrime(q)}

StrictlyAscending(s) == \A i \in 1..(Len(s) - 1) : s[i] < s[i + 1]

Elems(s) == {s[i] : i \in 1..Len(s)}

\* s lists the Len(s) smallest primes in ascending order: every entry is a
\* prime and no prime below the last entry is left out
SmallestPrimes(s) ==
    /\ StrictlyAscending(s)
    /\ \A i \in 1..Len(s) : IsPrime(s[i])
    /\ Len(s) > 0 => Elems(s) = PrimesUpTo(s[Len(s)])

\* The number of primes up to the sieve bound taken for n
PrimesInBound(n) == Cardinality(PrimesUpTo(Max(SieveFloor, SieveFactor * n)))

\* C1: whenever the sieve bound holds at least n primes, first_primes(n)
\* returns exactly the n smallest primes, strictly ascending and without
\* composite entries; first_primes(5) is [2, 3, 5, 7, 11].
C1_FirstPrimesExact ==
    (call.op = "first_primes" /\ PrimesInBound(call.n) >= call.n)
        => /\ Len(call.result) = call.n
           /\ SmallestPrimes(call.result)
           /\ call.n = 5 => call.result = <<2, 3, 5, 7, 11>>

\* first_primes(5) has returned
C1_Witness ==
    /\ call.op = "first_primes"
    /\ call.n = 5
    /\ PrimesInBound(call.n) >= call.n
    /\ call.result = <<2, 3, 5, 7, 11>>

\* C10: first_primes(n) returns min(n, number of primes up to the bound)
\* entries; when the bound holds fewer than n primes it returns all of
\* them, a list shorter than n.
C10_FirstPrimesShort ==
    call.op = "first_primes"
        => /\ Len(call.result) = Min(call.n, PrimesInBound(call.n))
           /\ PrimesInBound(call.n) < call.n
                  => /\ Len(call.result) < call.n
                     /\ StrictlyAscending(call.result)
                     /\ Elems(call.result)
                            = PrimesUpTo(Max(SieveFloor, SieveFactor * call.n))

\* first_primes has returned fewer primes than it was asked for
C10_Witness ==
    /\ call.op = "first_primes"
    /\ PrimesInBound(call.n) < call.n
    /\ Len(call.result) < call.n

(***************************************************************************)
(* Properties of PrimesContribution.compute                                *)
(***************************************************************************)

\* The positions in primes whose prime_term is below epsilon in magnitude
small_positions(f, primes, dps) ==
    {i \in 1..Len(primes) :
        Lt(Abs(prime_step(f, primes[i], dps).prime_term), Epsilon(dps))}

\* The first of the positions S, or n when there is none
first_position(S, n) ==
    IF S = {} THEN n ELSE CHOOSE i \in S : \A j \in S : i <= j

\* The primes the loop is to have processed
processed_primes(f, primes, dps) ==
    SubSeq(primes, 1,
           first_position(small_positions(f, primes, dps), Len(primes)))

\* C3: the keys of the contribution record, in insertion order, are the
\* first k entries of first_primes(num_primes), k being the position of the
\* first prime with |prime_term| < epsilon (that prime included) or the
\* length of the list; num_primes = 1 gives the single key 2.
C3_ContributionKeys ==
    (call.op = "PrimesContribution.compute" /\ call.num_primes >= 1)
        => /\ dict_keys(call.p_contributions)
                  = processed_primes(call.f, first_primes(call.num_primes),
                                     call.dps)
           /\ call.num_primes = 1 => dict_keys(call.p_contributions) = <<2>>

\* A compute has stopped early at a prime after the first one, and that
\* prime has its entry
C3_Witness ==
    /\ call.op = "PrimesContribution.compute"
    /\ Len(call.p_contributions) >= 2
    /\ Len(call.p_contributions) < Len(first_primes(call.num_primes))
    /\ Lt(Abs(call.p_contributions[Len(call.p_contributions)][2]),
          Epsilon(call.dps))

\* C9: whenever the inner sum of some prime runs through its whole range
\* without either cutoff, compute reports SeriesTruncationExceeded.
C9_CapReported ==
    (/\ call.op = "PrimesContribution.compute"
     /\ \E i \in 1..Len(call.inner) : call.inner[i].exit = "cap")
        => call.raised = "SeriesTruncationExceeded"

\* C17: an inner sum that meets neither cutoff has evaluated and added the
\* terms of all m = 1..100.
C17_HundredTerms ==
    call.op = "PrimesContribution.compute"
        => \A i \in 1..Len(call.inner) :
               call.inner[i].exit = "cap" => call.inner[i].terms = 100

\* The weight p^(-m/2) and the term of (p, m), as lines 51 and 62 form them
weight_at(p, m) == Pow(FromInt(p), Div(Neg(FromInt(m)), Two))

term_at(f, p, m) == inner_term(f, Log(FromInt(p)), m, weight_at(p, m))

RECURSIVE terms_run(_, _, _, _, _)

\* acc + term_m + ... + term_last, added in the order of m
terms_run(f, p, m, last, acc) ==
    IF m > last THEN acc
    ELSE terms_run(f, p, m + 1, last, Add(acc, term_at(f, p, m)))

RECURSIVE terms_sum(_, _, _, _, _)

\* The sum r up to term_last is known: the terms after it, if any
terms_rest(f, p, last, k, r) ==
    IF r[1] = 0 /\ last >= k THEN Zero
    ELSE terms_sum(f, p, last + 1, k, r)

\* acc + term_m + ... + term_k, added in the order of m, ten terms at a
\* time
terms_sum(f, p, m, k, acc) ==
    IF m > k THEN acc
    ELSE terms_rest(f, p, Min(m + 9, k), k,
                    terms_run(f, p, m, Min(m + 9, k), acc))

\* ln(p) * (term_1 + ... + term_k)
prime_term_at(f, p, k) == Mul(Log(FromInt(p)), terms_sum(f, p, 1, k, Zero))

\* k terms were added for p and the loop ended the way exit says: no
\* cutoff was met before, every added term has a weight that is not below
\* eps, and the cutoff named by exit is met where the loop stopped
stopped_at_first(f, p, k, exit, eps) ==
    /\ \A m \in 1..k : ~Lt(weight_at(p, m), eps)
    /\ \A m \in 1..(k - 1) : ~Lt(Abs(term_at(f, p, m)), eps)
    /\ exit = "power" => Lt(weight_at(p, k + 1), eps)
    /\ exit = "term" => k >= 1 /\ Lt(Abs(term_at(f, p, k)), eps)
    /\ exit = "cap" => k >= 1 /\ ~Lt(Abs(term_at(f, p, k)), eps)

RECURSIVE total_of(_, _, _, _)

\* acc plus the prime terms of the processed primes from index i on
total_of(f, inner, i, acc) ==
    IF i > Len(inner) THEN acc
    ELSE total_of(f, inner, i + 1,
                  Add(acc, prime_term_at(f, inner[i].p, inner[i].terms)))

\* C18: for every processed prime the inner loop stops at the first m whose
\* weight p^(-m/2) or whose term is below eps = 10^(-dps); a term with a
\* weight below eps is not added, the first term below eps is added, and
\* ln(p) * inner_sum is the prime's entry and its share of the total.
C18_InnerCutoffs ==
    call.op = "PrimesContribution.compute"
        => /\ Len(call.p_contributions) = Len(call.inner)
           /\ \A i \in 1..Len(call.inner) :
                  /\ stopped_at_first(call.f, call.inner[i].p,
                                      call.inner[i].terms, call.inner[i].exit,
                                      Epsilon(call.dps))
                  /\ call.p_contributions[i]
                         = <<call.inner[i].p,
                             ToFloat(prime_term_at(call.f, call.inner[i].p,
                                                   call.inner[i].terms))>>
           /\ call.total = total_of(call.f, call.inner, 1, Zero)

\* A call in which the weight cutoff ended an inner sum after terms were
\* added, or in which the first term was itself below eps and is the whole
\* entry of its prime
C18_Witness ==
    /\ call.op = "PrimesContribution.compute"
    /\ \E i \in 1..Len(call.inner) :
           \/ /\ call.inner[i].exit = "power"
              /\ call.inner[i].terms >= 1
              /\ call.p_contributions[i][2] # Zero
           \/ /\ call.inner[i].exit = "term"
              /\ call.inner[i].terms = 1
              /\ call.p_contributions[i][2] # Zero

(***************************************************************************)
(* Properties of ZerosContribution.compute                                 *)
(***************************************************************************)

RECURSIVE sum_to_floor(_, _, _, _)

\* The sum once the term of gs[i] is known: the term is added, and the sum
\* ends there when the magnitude of the term is below the floor
sum_with_term(gs, sigma, i, total, term) ==
    IF Lt(Abs(term), ZeroFloor) THEN Add(total, term)
    ELSE sum_to_floor(gs, sigma, i + 1, Add(total, term))

\* The sum of the transforms of gs[i], gs[i + 1], ... in the given order, up
\* to and including the first term whose magnitude is below the floor
sum_to_floor(gs, sigma, i, total) ==
    IF i > Len(gs) THEN total
    ELSE sum_with_term(gs, sigma, i, total,
                       gaussian_fourier_transform(gs[i], sigma))

\* C2: compute returns twice the sum of the transforms of the zeros, taken
\* in order up to and including the first term whose magnitude is below
\* 1e-50 (all of them if there is none), and 0 for the empty sequence.
C2_ZerosUpToFloor ==
    call.op = "ZerosContribution.compute"
        => /\ call.result = Mul(Two, sum_to_floor(call.gammas, call.sigma,
                                                  1, Zero))
           /\ call.gammas = << >> => call.result = Zero

(***************************************************************************)
(* Properties of WeilFunctional.compute                                    *)
(***************************************************************************)

\* The record's total is poles - archimedean - primes and its residual is
\* the distance of that total from the zeros side
one_definition(total, c) ==
    /\ total = c.W_total
    /\ c.W_total = Sub(Sub(c.W_poles, c.W_archimedean), c.W_primes)
    /\ c.identity_error = Abs(Sub(c.W_total, c.W_zeros))

\* C4: the returned total equals the record's W_total and is
\* W_poles - W_archimedean - W_primes, and identity_error is
\* |W_total - W_zeros|.
C4_OneDefinition ==
    call.op = "WeilFunctional.compute"
        => one_definition(call.result.total, call.result.components)

\* A compute has returned with all four terms and the residual nonzero
C4_Witness ==
    /\ call.op = "WeilFunctional.compute"
    /\ call.result.components.W_zeros[1] # 0
    /\ call.result.components.W_primes[1] # 0
    /\ call.result.components.W_archimedean[1] # 0
    /\ call.result.components.identity_error[1] # 0

\* C5: the record returned by compute holds the per-prime contributions,
\* and experiment_graph_weight_assignment reads them from it.
C5_RecordHasContributions ==
    /\ call.op = "WeilFunctional.compute"
           => "p_contributions" \in DOMAIN call.result.components
    /\ call.op = "experiment_graph_weight_assignment"
           => call.result.raised = "none"

\* C6: a second compute with the same zeros, sigma and num_primes at the
\* same precision returns the same total and the same record as the first.
C6_SameInputsSameResult ==
    (call.op = "WeilFunctional.compute" /\ call.nth = 2)
        => /\ call.result.total = call.first.total
           /\ call.result.components = call.first.components

\* The same compute has been called a second time, on zeros that count
C6_Witness ==
    /\ call.op = "WeilFunctional.compute"
    /\ call.nth = 2
    /\ call.result.components.num_gammas > 0
    /\ call.result.components.W_zeros[1] # 0

\* C7: once the precision is set, no operation other than setting it
\* leaves the digit count different from what it was at its entry.
C7_PrecisionKept ==
    (precision_set /\ call.op \notin {"none", "set_precision"})
        => mp_dps = call.entry_dps

\* The residual is above the tolerance 10^-(dps - 5)
residual_exceeded(c, dps) == Lt(Epsilon(dps - 5), c.identity_error)

\* C8: a compute whose residual exceeds the tolerance raises, or attaches
\* a diagnostic to the record it returns.
C8_ResidualSurfaced ==
    (/\ call.op = "WeilFunctional.compute"
     /\ residual_exceeded(call.result.components, call.dps))
        => \/ call.result.raised # "none"
           \/ "diagnostics" \in DOMAIN call.result.components

(***************************************************************************)
(* Properties of the archimedean integrand                                 *)
(***************************************************************************)

\* C11: for every x with |x| < 1e-15, x = 0 included, the integrand
\* returns exactly 0 without going through the ratio, at every precision;
\* the division is carried out only for |x| >= 1e-15.
C11_IntegrandCutoff ==
    call.op = "integrand"
        => /\ Lt(Abs(call.x), <<100, -17>>)
                  => /\ call.result.value = Zero
                     /\ ~call.result.divided
                     /\ call.result.raised = "none"
           /\ call.result.divided => ~Lt(Abs(call.x), <<100, -17>>)

\* The integrand has been asked for a nonzero x below the cutoff, at 50
\* digits
C11_Witness ==
    /\ call.op = "integrand"
    /\ call.entry_dps = 50
    /\ call.x[1] # 0
    /\ Lt(Abs(call.x), <<100, -17>>)
    /\ ~call.result.divided

(***************************************************************************)
(* Further properties of WeilFunctional.compute                            *)
(***************************************************************************)

\* The regression scenario of tests/test_weil.py at the size of the model:
\* a width of 1.0, 1.5 or 2.0, the largest number of primes, the largest
\* number of zeros, 50 digits
baseline_scenario(c, dps) ==
    /\ c.sigma \in {One, <<150, -2>>, Two}
    /\ c.num_primes = MaxNumPrimes
    /\ c.num_gammas = MaxLoad
    /\ dps = 50

\* C12: in the regression scenario (sigma in {1.0, 1.5, 2.0}, all primes,
\* all zeros, 50 digits) the returned total is at least -1e-10.
C12_BaselinePositive ==
    (/\ call.op = "WeilFunctional.compute"
     /\ baseline_scenario(call.result.components, call.dps))
        => Ge(call.result.total, <<-100, -12>>)

\* C13: the value compute returns is the sum of the three evaluated terms,
\* W_R(f) + W_zeros(f) + W_primes(f).
C13_SumOfThreeTerms ==
    call.op = "WeilFunctional.compute"
        => call.result.total
               = Add(Add(call.result.components.W_archimedean,
                         call.result.components.W_zeros),
                     call.result.components.W_primes)

\* C19: num_gammas and num_primes of the record are the numbers of zeros
\* and of primes whose terms went into the two sums of the call.
C19_CountsAreTermsUsed ==
    call.op = "WeilFunctional.compute"
        => /\ call.result.components.num_gammas = call.result.zeros_used
           /\ call.result.components.num_primes
                  = Len(call.result.p_contributions)

(***************************************************************************)
(* Properties of RiemannZerosLoader                                        *)
(***************************************************************************)

\* C14: verify_first_five returns True exactly when the list has its first
\* five entries and each is within the tolerance of its reference value.
C14_VerifiedIffFiveMatch ==
    call.op = "verify_first_five"
        => (call.result
                <=> /\ Len(call.gammas) >= 5
                    /\ \A i \in 1..5 :
                           ~Lt(tolerance,
                               Abs(Sub(call.gammas[i], expected[i]))))

\* The place of a source in the documented order: SageMath, cached JSON,
\* local text file, web
documented_rank(source) ==
    CASE source = "sage"  -> 1
      [] source = "cache" -> 2
      [] source = "txt"   -> 3
      [] source = "web"   -> 4

\* C15: load_odlyzko turns to its sources in the documented order, SageMath
\* first, and to a later one only after the earlier ones.
C15_DocumentedOrder ==
    call.op = "load_odlyzko"
        => /\ call.consulted[1] = "sage"
           /\ \A i \in 1..(Len(call.consulted) - 1) :
                  documented_rank(call.consulted[i])
                      < documented_rank(call.consulted[i + 1])

(***************************************************************************)
(* Properties of BruhatTitsTree.build                                      *)
(***************************************************************************)

RECURSIVE geometric_sum(_, _)

\* 1 + p + ... + p^(k - 1)
geometric_sum(p, k) == IF k = 0 THEN 0 ELSE 1 + p * geometric_sum(p, k - 1)

\* 1 + (p + 1)(1 + p + ... + p^(depth - 1))
tree_size(p, depth) == 1 + (p + 1) * geometric_sum(p, depth)

children_of(t, n) == {c \in t.nodes : <<n, c>> \in t.edges}

degree_of(t, n) == Cardinality({e \in t.edges : e[1] = n \/ e[2] = n})

RECURSIVE reached_from(_, _, _)

\* The nodes joined to a node of seen by a path of edges, taken in either
\* direction; frontier holds the nodes of seen found last
reached_from(t, seen, frontier) ==
    IF frontier = {} THEN seen
    ELSE reached_from(t,
             seen \cup {n \in t.nodes \ seen :
                            \E m \in frontier :
                                <<m, n>> \in t.edges \/ <<n, m>> \in t.edges},
             {n \in t.nodes \ seen :
                  \E m \in frontier :
                      <<m, n>> \in t.edges \/ <<n, m>> \in t.edges})

\* Connected, and with one edge less than nodes: a tree
connected_acyclic(t) ==
    /\ reached_from(t, {0}, {0}) = t.nodes
    /\ Cardinality(t.edges) = Cardinality(t.nodes) - 1

\* The shape of the finished tree
tree_shape(t) ==
    /\ connected_acyclic(t)
    /\ t.node_level[0] = 0
    /\ t.depth >= 1 => Cardinality(children_of(t, 0)) = t.p + 1
    /\ \A n \in t.nodes :
           /\ (0 < t.node_level[n] /\ t.node_level[n] < t.depth)
                  => /\ Cardinality(children_of(t, n)) = t.p
                     /\ degree_of(t, n) = t.p + 1
           /\ t.node_level[n] = t.depth => children_of(t, n) = {}
           /\ t.node_level[n] <= t.depth
    /\ Cardinality(t.nodes) = tree_size(t.p, t.depth)

\* C16: build terminates (every pass of the loop takes one of the nodes
\* made so far, and no more than the final count are made), and when it
\* ends the graph is connected and acyclic, the root has p + 1 children,
\* every node between the root and the depth has p children and degree
\* p + 1, every node at the depth is a leaf, and the nodes number
\* 1 + (p + 1)(1 + p + ... + p^(depth - 1)).
C16_TreeBuilt ==
    call.op = "BruhatTitsTree.build"
        => /\ call.tree.iterations + Len(call.tree.queue)
                  = call.tree.node_id_counter
           /\ call.tree.node_id_counter
                  <= tree_size(call.tree.p, call.tree.depth)
           /\ call.tree.queue = << >> => tree_shape(call.tree)

\* The tree of tests/test_graph.py is finished: p = 2, depth = 2, 10 nodes
C16_Witness ==
    /\ call.op = "BruhatTitsTree.build"
    /\ call.tree.queue = << >>
    /\ call.tree.p = 2
    /\ call.tree.depth = 2
    /\ Cardinality(call.tree.nodes) = 10

====
